---- MODULE Spec2Model ----
(***************************************************************************)
(* Model of sorconcsv.py: the SOR (Bellcore/Telcordia OTDR trace) decoder. *)
(* Bytes are integers 0..255, byte strings are sequences of bytes, decoded *)
(* text is identified with its byte sequence.                              *)
(***************************************************************************)
EXTENDS Integers, Sequences, FiniteSets, TLC

VARIABLES
    file,        \* the bytes of the input file
    fh,          \* the FileHandler of the parse in progress
    gen,         \* the description the file was laid out from
    pc,          \* where convert_to_csv / sorparse stands
    results,     \* self.results
    tracedata,   \* self.tracedata
    status,      \* the local status of sorparse
    klist,       \* the block names sorted by order
    idx,         \* position of the block loop in klist
    ret,         \* what sorparse returned
    output,      \* the output file
    convRet,     \* what convert_to_csv returned
    calls,       \* convert_to_csv calls begun on this SorConverter
    ran,         \* the decoders run in this parse, in order
    mapinfo,     \* the leading string and the handler at the version read
    cksumpos,    \* where the stored checksum was read from
    consumed,    \* bytes returned by read since the last seek(0)
    digests,     \* digest calls since the last seek(0)
    lastDigest,  \* the value of the last digest call
    seeks,       \* seeks to a non-zero position since the last seek(0)
    nops         \* FileHandler calls made

parsevars == <<gen, pc, results, tracedata, status, klist, idx, ret, output,
               convRet, calls, ran, mapinfo, cksumpos>>

fhonly == <<consumed, digests, lastDigest, seeks, nops>>

vars == <<file, fh, parsevars, fhonly>>

(***************************************************************************)
(* Bounds of the model                                                     *)
(***************************************************************************)
MaxCalls == 2

MaxN == 3

MaxBlocks == 7

MaxOps == 4

FHFileLen == 5000

ReadSizes == {1, 1500, 3000}

SeekTargets == {0, 7}

Min(a, b) == IF a < b THEN a ELSE b

(***************************************************************************)
(* CRC-16/CCITT-FALSE, as crcmod.predefined.Crc("crc-ccitt-false"):        *)
(* polynomial 0x1021, initial value 0xFFFF, not reflected, no final xor.   *)
(***************************************************************************)
RECURSIVE XorBits(_, _, _)
XorBits(a, b, nbits) ==
    IF nbits = 0 THEN 0
    ELSE ((a + b) % 2) + 2 * XorBits(a \div 2, b \div 2, nbits - 1)

Xor8 == [a \in 0..255 |-> [b \in 0..255 |-> XorBits(a, b, 8)]]

Xor16(a, b) == Xor8[a \div 256][b \div 256] * 256 + Xor8[a % 256][b % 256]

CrcPoly == 4129

CrcInit == 65535

RECURSIVE CrcShift(_, _)
CrcShift(c, k) ==
    IF k = 0 THEN c
    ELSE CrcShift(IF c >= 32768 THEN Xor16((c * 2) % 65536, CrcPoly)
                  ELSE c * 2, k - 1)

CrcTable == [i \in 0..255 |-> CrcShift(i * 256, 8)]

CrcByte(crc, b) ==
    LET Fold(t) == Xor8[crc % 256][t \div 256] * 256 + (t % 256)
    IN  Fold(CrcTable[Xor8[crc \div 256][b]])

RECURSIVE CrcRange(_, _, _, _)
CrcRange(crc, s, lo, hi) ==
    IF lo > hi THEN crc
    ELSE IF lo = hi THEN CrcByte(crc, s[lo])
    ELSE LET Right(left) ==
                 IF left >= 0 THEN CrcRange(left, s, ((lo + hi) \div 2) + 1, hi)
                 ELSE left
         IN  Right(CrcRange(crc, s, lo, (lo + hi) \div 2))

\* crc16.update(data)
CrcUpdate(crc, data) == CrcRange(crc, data, 1, Len(data))

(***************************************************************************)
(* FileHandler: the file wrapper that accumulates the checksum             *)
(***************************************************************************)
bufsize == 2048

\* the underlying filehandle.read(n) at cursor pos
RawRead(pos, n) ==
    IF pos >= Len(file) THEN <<>>
    ELSE SubSeq(file, pos + 1, Min(pos + n, Len(file)))

\* the file offsets pos .. pos + n - 1
Span(pos, n) == pos..(pos + n - 1)

\* seen, reread and back keep the history of the handler since it was
\* reset: the offsets read, the number of bytes read at an offset already
\* read, and the number of seeks to or before an offset already read
FHNew == [pos |-> 0, buffer |-> <<>>, spaceleft |-> bufsize, crc |-> CrcInit,
          seen |-> {}, reread |-> 0, back |-> 0]

FHFlushBug(h) == [h EXCEPT !.buffer = <<>>, !.spaceleft = bufsize]

FHFlush(h) ==
    [h EXCEPT !.crc = CrcUpdate(h.crc, h.buffer),
              !.buffer = <<>>,
              !.spaceleft = bufsize]

\* FileHandler.read: returns the handler after the call and the bytes read
FHRead(h, n) ==
    LET Got(buf) ==
            [h   |-> [(IF Len(buf) > h.spaceleft THEN FHFlush(h) ELSE h)
                         EXCEPT !.buffer = @ \o buf,
                                !.spaceleft = @ - Len(buf),
                                !.pos = @ + Len(buf),
                                !.seen = @ \cup Span(h.pos, Len(buf)),
                                !.reread = @ + Cardinality(Span(h.pos, Len(buf))
                                                             \cap h.seen)],
             buf |-> buf]
    IN  Got(RawRead(h.pos, n))

\* FileHandler.digest: updates the crc object with the buffer, keeps the buffer
FHDigest(h) == [h EXCEPT !.crc = CrcUpdate(h.crc, h.buffer)]

\* FileHandler.seek
FHSeek(h, p) ==
    IF p = 0 THEN FHNew
    ELSE [h EXCEPT !.pos = p,
                   !.back = @ + (IF \E o \in h.seen : o >= p THEN 1 ELSE 0)]

FHTell(h) == h.pos

(***************************************************************************)
(* Primitive decoders.  Each returns [h, v, ok]: the handler after the     *)
(* reads, the decoded value, and ok = FALSE when the code raises.          *)
(***************************************************************************)
\* bytes.decode("ascii") succeeds
AsciiValid(bs) == \A i \in 1..Len(bs) : bs[i] < 128

IsCont(b) == b >= 128 /\ b <= 191

\* bytes.decode("utf-8") succeeds
RECURSIVE Utf8From(_, _)
Utf8From(bs, i) ==
    IF i > Len(bs) THEN TRUE
    ELSE LET b == bs[i]
             c(k) == i + k <= Len(bs) /\ IsCont(bs[i + k])
         IN  IF b < 128 THEN Utf8From(bs, i + 1)
             ELSE IF b >= 194 /\ b <= 223 THEN c(1) /\ Utf8From(bs, i + 2)
             ELSE IF b >= 224 /\ b <= 239
                  THEN /\ c(1) /\ c(2)
                       /\ (b = 224 => bs[i + 1] >= 160)
                       /\ (b = 237 => bs[i + 1] <= 159)
                       /\ Utf8From(bs, i + 3)
             ELSE IF b >= 240 /\ b <= 244
                  THEN /\ c(1) /\ c(2) /\ c(3)
                       /\ (b = 240 => bs[i + 1] >= 144)
                       /\ (b = 244 => bs[i + 1] <= 143)
                       /\ Utf8From(bs, i + 4)
             ELSE FALSE

Utf8Valid(bs) == Utf8From(bs, 1)

RECURSIVE GetStringLoop(_, _)
GetStringLoop(h, acc) ==
    LET Step(r) ==
            IF r.buf = <<>> \/ r.buf[1] = 0 THEN [h |-> r.h, v |-> acc]
            ELSE GetStringLoop(r.h, Append(acc, r.buf[1]))
    IN  Step(FHRead(h, 1))

\* _get_string: bytes up to a NUL or the end of the file, decoded as UTF-8
GetString(h) ==
    LET Decode(r) == [h |-> r.h, v |-> r.v, ok |-> Utf8Valid(r.v)]
    IN  Decode(GetStringLoop(h, <<>>))

\* little-endian value of a byte string
RECURSIVE LE(_)
LE(bs) == IF bs = <<>> THEN 0 ELSE bs[1] + 256 * LE(Tail(bs))

RECURSIVE Pow256(_)
Pow256(n) == IF n = 0 THEN 1 ELSE 256 * Pow256(n - 1)

\* struct.unpack("<h" / "<i" / "<q"): two's complement of the top byte
LESigned(bs) ==
    LE(SubSeq(bs, 1, Len(bs) - 1))
      + (IF bs[Len(bs)] >= 128 THEN bs[Len(bs)] - 256 ELSE bs[Len(bs)])
          * Pow256(Len(bs) - 1)

\* _get_uint: struct.error on a short read, ValueError on a bad width
GetUint(h, nbytes) ==
    LET Unpack(r) ==
            IF nbytes \in {2, 4, 8} /\ Len(r.buf) = nbytes
            THEN [h |-> r.h, v |-> LE(r.buf), ok |-> TRUE]
            ELSE [h |-> r.h, v |-> 0, ok |-> FALSE]
    IN  Unpack(FHRead(h, nbytes))

\* _get_signed
GetSigned(h, nbytes) ==
    LET Unpack(r) ==
            IF nbytes \in {2, 4, 8} /\ Len(r.buf) = nbytes
            THEN [h |-> r.h, v |-> LESigned(r.buf), ok |-> TRUE]
            ELSE [h |-> r.h, v |-> 0, ok |-> FALSE]
    IN  Unpack(FHRead(h, nbytes))

\* fh.read(n).decode("ascii")
GetAscii(h, n) ==
    LET Decode(r) == [h |-> r.h, v |-> r.buf, ok |-> AsciiValid(r.buf)]
    IN  Decode(FHRead(h, n))

\* fh.read(n).decode("utf-8")
GetUtf8(h, n) ==
    LET Decode(r) == [h |-> r.h, v |-> r.buf, ok |-> Utf8Valid(r.buf)]
    IN  Decode(FHRead(h, n))

\* fh.read(n), result not interpreted
GetRaw(h, n) ==
    LET Keep(r) == [h |-> r.h, v |-> r.buf, ok |-> TRUE]
    IN  Keep(FHRead(h, n))

\* one read of a decoder, by kind
ReadField(h, t) ==
    CASE t = "str"          -> GetString(h)
      [] t \in {"u2", "u4"} -> GetUint(h, IF t = "u2" THEN 2 ELSE 4)
      [] t \in {"i2", "i4"} -> GetSigned(h, IF t = "i2" THEN 2 ELSE 4)
      [] t \in {"a2", "a8"} -> GetAscii(h, IF t = "a2" THEN 2 ELSE 8)
      [] t = "s2"           -> GetUtf8(h, 2)
      [] t = "r20"          -> GetRaw(h, 20)

\* a run of reads in order, stopping at the first one that raises
RECURSIVE ReadFields(_, _, _, _)
ReadFields(h, ts, k, acc) ==
    IF k > Len(ts) THEN [h |-> h, v |-> acc, ok |-> TRUE]
    ELSE LET Then(r) ==
                 IF r.ok THEN ReadFields(r.h, ts, k + 1, Append(acc, r.v))
                 ELSE [h |-> r.h, v |-> acc, ok |-> FALSE]
         IN  Then(ReadField(h, ts[k]))

(***************************************************************************)
(* self.results: a dictionary.  keys is the set of keys present; blocks is *)
(* results["blocks"] as the sequence of its values in insertion order.     *)
(***************************************************************************)
StrMap       == <<77, 97, 112>>
StrGenParams == <<71, 101, 110, 80, 97, 114, 97, 109, 115>>
StrSupParams == <<83, 117, 112, 80, 97, 114, 97, 109, 115>>
StrFxdParams == <<70, 120, 100, 80, 97, 114, 97, 109, 115>>
StrDataPts   == <<68, 97, 116, 97, 80, 116, 115>>
StrKeyEvents == <<75, 101, 121, 69, 118, 101, 110, 116, 115>>
StrCksum     == <<67, 107, 115, 117, 109>>

ResultsNew ==
    [keys      |-> {},
     format    |-> 0,
     version   |-> 0,
     mapblock  |-> [nbytes |-> 0, nblocks |-> 0],
     blocks    |-> <<>>,
     GenParams |-> <<>>,
     SupParams |-> <<>>,
     FxdParams |-> [vals |-> <<>>, derived |-> FALSE, ss |-> 0, ior |-> 0,
                    ndp |-> 0],
     DataPts   |-> [keys |-> {}, N |-> 0, traces |-> 0, scaling |-> 0,
                    offset |-> "", xscaling |-> 0],
     KeyEvents |-> [keys |-> {}, nev |-> 0, events |-> <<>>, summary |-> <<>>],
     Cksum     |-> [keys |-> {}, ours |-> 0, checksum |-> 0, match |-> FALSE]]

\* results["blocks"][name] = rec
DictPut(blocks, rec) ==
    IF \E i \in 1..Len(blocks) : blocks[i].name = rec.name
    THEN [i \in 1..Len(blocks) |->
             IF blocks[i].name = rec.name THEN rec ELSE blocks[i]]
    ELSE Append(blocks, rec)

\* results["blocks"][name]
BlockRef(res, name) ==
    res.blocks[CHOOSE i \in 1..Len(res.blocks) : res.blocks[i].name = name]

(***************************************************************************)
(* _process_mapblock                                                       *)
(***************************************************************************)
FormatOfBug(tt) == IF Len(tt) >= 3 /\ SubSeq(tt, 1, 3) = StrMap THEN 2 ELSE 1

\* the format chosen from the leading string
FormatOf(tt) == IF tt = StrMap THEN 2 ELSE 1

\* the cursor the version number is read from
MapRewind(h, fmt) == IF fmt = 2 THEN h ELSE FHSeek(h, 0)

BlockPosBug(startpos, bsize) == startpos + bsize

\* the offset given to the entry being read, from the running total
BlockPos(startpos, bsize) == startpos

\* the loop over the map entries
RECURSIVE MapLoop(_, _, _, _, _)
MapLoop(h, blocks, startpos, i, n) ==
    IF i >= n THEN [h |-> h, blocks |-> blocks, ok |-> TRUE]
    ELSE LET Entry(r) ==
                 IF ~r.ok THEN [h |-> r.h, blocks |-> blocks, ok |-> FALSE]
                 ELSE MapLoop(r.h,
                              DictPut(blocks,
                                      [name    |-> r.v[1],
                                       version |-> r.v[2],
                                       size    |-> r.v[3],
                                       pos     |-> BlockPos(startpos, r.v[3]),
                                       order   |-> i]),
                              startpos + r.v[3], i + 1, n)
         IN  Entry(ReadFields(h, <<"str", "u2", "u4">>, 1, <<>>))

\* returns the handler, the results, the status, the leading string and the
\* handler as it was when the version number was about to be read
ProcessMapblock(h0, res0) ==
    LET Done(res3, tt, hver, lp) ==
            [h |-> lp.h, res |-> [res3 EXCEPT !.blocks = lp.blocks],
             st |-> IF lp.ok THEN "ok" ELSE "Error", tt |-> tt, hver |-> hver]
        Header(res1, tt, hver, hd) ==
            IF Len(hd.v) = 0
            THEN [h |-> hd.h, res |-> res1, st |-> "Error", tt |-> tt,
                  hver |-> hver]
            ELSE IF ~hd.ok
            THEN [h |-> hd.h,
                  res |-> [res1 EXCEPT !.keys = @ \cup {"version"},
                                       !.version = hd.v[1]],
                  st |-> "Error", tt |-> tt, hver |-> hver]
            ELSE Done([res1 EXCEPT !.keys = @ \cup {"version", "mapblock",
                                                    "blocks"},
                                   !.version = hd.v[1],
                                   !.mapblock = [nbytes  |-> hd.v[2],
                                                 nblocks |-> hd.v[3] - 1],
                                   !.blocks = <<>>],
                      tt, hver,
                      MapLoop(hd.h, <<>>, hd.v[2], 0, hd.v[3] - 1))
        Version(res1, tt, hver) ==
            Header(res1, tt, hver, ReadFields(hver, <<"u2", "u4", "u2">>, 1, <<>>))
        Lead(s) ==
            IF ~s.ok
            THEN [h |-> s.h, res |-> res0, st |-> "Error", tt |-> s.v,
                  hver |-> s.h]
            ELSE Version([res0 EXCEPT !.keys = @ \cup {"format"},
                                      !.format = FormatOf(s.v)],
                         s.v, MapRewind(s.h, FormatOf(s.v)))
    IN  Lead(GetString(FHSeek(h0, 0)))

(***************************************************************************)
(* The head of every block decoder: seek to the block, and in format 2     *)
(* compare the tag.  st is "ok", "nok" (tag differs) or "Error" (raised).  *)
(***************************************************************************)
TagStatusBug(tag, bname) == "ok"

TagStatus(tag, bname) == IF tag # bname \o <<0>> THEN "nok" ELSE "ok"

BlockEnter(h, res, bname) ==
    LET Tag(t, pos) ==
            [h |-> t.h, tag |-> t.v, pos |-> pos,
             st |-> IF ~t.ok THEN "Error" ELSE TagStatus(t.v, bname)]
        At(h1, pos) ==
            IF res.format = 2 THEN Tag(GetAscii(h1, Len(bname) + 1), pos)
            ELSE [h |-> h1, tag |-> <<>>, pos |-> pos, st |-> "ok"]
        Seek(pos) == At(FHSeek(h, pos), pos)
    IN  Seek(BlockRef(res, bname).pos)

(***************************************************************************)
(* _process_genparams, _process_supparams                                  *)
(***************************************************************************)
\* the reads of GenParams after the tag: language, then the fields
GenFields(fmt) ==
    IF fmt = 1
    THEN <<"a2", "str", "str", "u2", "str", "str", "str", "a2", "i4",
           "str", "str">>
    ELSE <<"a2", "str", "str", "u2", "u2", "str", "str", "str", "a2", "i4",
           "i4", "str", "str">>

ProcessGenparams(h, res) ==
    LET Fields(e, r) ==
            [h |-> r.h,
             res |-> [res EXCEPT !.keys = @ \cup {"GenParams"},
                                 !.GenParams = r.v],
             st |-> IF r.ok THEN "ok" ELSE "Error", tag |-> e.tag]
        Body(e) ==
            IF e.st # "ok" THEN [h |-> e.h, res |-> res, st |-> e.st, tag |-> e.tag]
            ELSE Fields(e, ReadFields(e.h, GenFields(res.format), 1, <<>>))
    IN  Body(BlockEnter(h, res, StrGenParams))

SupFields == <<"str", "str", "str", "str", "str", "str", "str">>

ProcessSupparams(h, res) ==
    LET Fields(e, r) ==
            [h |-> r.h,
             res |-> [res EXCEPT !.keys = @ \cup {"SupParams"},
                                 !.SupParams = r.v],
             st |-> IF r.ok THEN "ok" ELSE "Error", tag |-> e.tag]
        Body(e) ==
            IF e.st # "ok" THEN [h |-> e.h, res |-> res, st |-> e.st, tag |-> e.tag]
            ELSE Fields(e, ReadFields(e.h, SupFields, 1, <<>>))
    IN  Body(BlockEnter(h, res, StrSupParams))

(***************************************************************************)
(* _process_fxdparams.  plist as <<name, offset, size, type>>; the scale,  *)
(* precision and unit columns only format the text kept for a field and    *)
(* are left out, the values are kept as the integers read.                 *)
(***************************************************************************)
FxdFields(fmt) ==
    IF fmt = 1
    THEN << <<"date/time", 0, 4, "v">>, <<"unit", 4, 2, "s">>,
            <<"wavelength", 6, 2, "v">>, <<"acquisition offset", 8, 4, "i">>,
            <<"number of pulse width entries", 12, 2, "v">>,
            <<"pulse width", 14, 2, "v">>, <<"sample spacing", 16, 4, "v">>,
            <<"num data points", 20, 4, "v">>, <<"index", 24, 4, "v">>,
            <<"BC", 28, 2, "v">>, <<"num averages", 30, 4, "v">>,
            <<"range", 34, 4, "v">>, <<"front panel offset", 38, 4, "i">>,
            <<"noise floor level", 42, 2, "v">>,
            <<"noise floor scaling factor", 44, 2, "i">>,
            <<"power offset first point", 46, 2, "v">>,
            <<"loss thr", 48, 2, "v">>, <<"refl thr", 50, 2, "v">>,
            <<"EOT thr", 52, 2, "v">> >>
    ELSE << <<"date/time", 0, 4, "v">>, <<"unit", 4, 2, "s">>,
            <<"wavelength", 6, 2, "v">>, <<"acquisition offset", 8, 4, "i">>,
            <<"acquisition offset distance", 12, 4, "i">>,
            <<"number of pulse width entries", 16, 2, "v">>,
            <<"pulse width", 18, 2, "v">>, <<"sample spacing", 20, 4, "v">>,
            <<"num data points", 24, 4, "v">>, <<"index", 28, 4, "v">>,
            <<"BC", 32, 2, "v">>, <<"num averages", 34, 4, "v">>,
            <<"averaging time", 38, 2, "v">>, <<"range", 40, 4, "v">>,
            <<"acquisition range distance", 44, 4, "i">>,
            <<"front panel offset", 48, 4, "i">>,
            <<"noise floor level", 52, 2, "v">>,
            <<"noise floor scaling factor", 54, 2, "i">>,
            <<"power offset first point", 56, 2, "v">>,
            <<"loss thr", 58, 2, "v">>, <<"refl thr", 60, 2, "v">>,
            <<"EOT thr", 62, 2, "v">>, <<"trace type", 64, 2, "s">>,
            <<"X1", 66, 4, "i">>, <<"Y1", 70, 4, "i">>,
            <<"X2", 74, 4, "i">>, <<"Y2", 78, 4, "i">> >>

\* the value kept for a field, by name
FxdVal(fmt, vals, name) ==
    vals[CHOOSE k \in 1..Len(FxdFields(fmt)) : FxdFields(fmt)[k][1] = name]

\* for field in plist: seek to the field, read it by type
RECURSIVE FxdLoop(_, _, _, _, _)
FxdLoop(h, base, fs, k, acc) ==
    IF k > Len(fs) THEN [h |-> h, v |-> acc, ok |-> TRUE]
    ELSE LET Then(r) ==
                 IF r.ok THEN FxdLoop(r.h, base, fs, k + 1, Append(acc, r.v))
                 ELSE [h |-> r.h, v |-> acc, ok |-> FALSE]
             Field(h1, f) ==
                 Then(ReadField(h1, CASE f[4] = "i" /\ f[3] = 2 -> "i2"
                                      [] f[4] = "i" /\ f[3] = 4 -> "i4"
                                      [] f[4] = "v" /\ f[3] = 2 -> "u2"
                                      [] f[4] = "v" /\ f[3] = 4 -> "u4"
                                      [] f[4] = "s" /\ f[3] = 2 -> "s2"))
         IN  Field(FHSeek(h, base + fs[k][2]), fs[k])

\* ss = sample spacing / 10^8 usec, ior = index / 10^5; resolution and range
\* are derived from them (dx = ss * SOL / ior raises when ior is 0)
ProcessFxdparams(h, res) ==
    LET Derive(e, r, rec, ior, ss, ndp) ==
            IF ~r.ok \/ ior = 0
            THEN [h |-> r.h,
                  res |-> [res EXCEPT !.keys = @ \cup {"FxdParams"},
                                      !.FxdParams = rec],
                  st |-> "Error", tag |-> e.tag]
            ELSE [h |-> r.h,
                  res |-> [res EXCEPT !.keys = @ \cup {"FxdParams"},
                                      !.FxdParams = [rec EXCEPT !.derived = TRUE,
                                                                !.ss = ss,
                                                                !.ior = ior,
                                                                !.ndp = ndp]],
                  st |-> "ok", tag |-> e.tag]
        Fields(e, r) ==
            Derive(e, r,
                   [vals |-> r.v, derived |-> FALSE, ss |-> 0, ior |-> 0,
                    ndp |-> 0],
                   FxdVal(res.format, r.v, "index"),
                   FxdVal(res.format, r.v, "sample spacing"),
                   FxdVal(res.format, r.v, "num data points"))
        Body(e) ==
            IF e.st # "ok" THEN [h |-> e.h, res |-> res, st |-> e.st, tag |-> e.tag]
            ELSE Fields(e, FxdLoop(e.h, e.pos, FxdFields(res.format), 1, <<>>))
    IN  Body(BlockEnter(h, res, StrFxdParams))

(***************************************************************************)
(* Numbers.  SOL = 299792.458 / 1e6 km/usec = SOLnum / 10^9.  A value      *)
(* written with "%.6f" is kept as the integer count of its millionths.     *)
(***************************************************************************)
SOLnum == 299792458

\* "%.6f" of the value num / (den * 10^6), num >= 0, den > 0
Fmt6(num, den) ==
    LET q == num \div den
        r == num % den
    IN  IF r >= den - r THEN q + 1 ELSE q

\* resolution = ss * SOL / ior * 1000 metres = SOLnum * ss / (ior * 10^9),
\* with ss, ior the integers read
\* x = dx * i * xscaling / 1000.0 with dx = resolution / 1000.0, as written
\* by "%.6f"
DistKm(fxd, i, xscaling) ==
    Fmt6(SOLnum * fxd.ss * i * xscaling, fxd.ior * 1000000000)

SeqMax(s) == CHOOSE m \in {s[i] : i \in 1..Len(s)} : \A j \in 1..Len(s) : s[j] <= m

SeqMin(s) == CHOOSE m \in {s[i] : i \in 1..Len(s)} : \A j \in 1..Len(s) : s[j] >= m

LossOfBug(offset, ymax, ymin, x, scal) ==
    IF offset = "STV" THEN (x - ymin) * scal
    ELSE IF offset = "AFL" THEN (ymin - x) * scal
    ELSE (0 - x) * scal

\* the loss of one sample in millionths of a dB: fs = 0.001 * (scal / 1000.0)
LossOf(offset, ymax, ymin, x, scal) ==
    IF offset = "STV" THEN (ymax - x) * scal
    ELSE IF offset = "AFL" THEN (ymin - x) * scal
    ELSE (0 - x) * scal

(***************************************************************************)
(* _process_datapts.  A tracedata line "%.6f\t%.6f\n" is kept as the two   *)
(* numbers and the separator.                                              *)
(***************************************************************************)
TraceLine(x, y) == [dist |-> x, loss |-> y, sep |-> "\t"]

ProcessDatapts(h, res, td) ==
    LET Lines(dlist, ymax, ymin, scal) ==
            [i \in 1..Len(dlist) |->
                TraceLine(DistKm(res.FxdParams, i - 1, 1),
                          LossOf("STV", ymax, ymin, dlist[i], scal))]
        Samples(e, res1, scal, smp) ==
            IF \/ ~smp.ok
               \/ smp.v = <<>>
               \/ "FxdParams" \notin res.keys
               \/ ~res.FxdParams.derived
            THEN [h |-> smp.h, res |-> res1, td |-> td, st |-> "Error",
                  tag |-> e.tag]
            ELSE [h |-> smp.h, res |-> res1,
                  td |-> td \o Lines(smp.v, SeqMax(smp.v), SeqMin(smp.v), scal),
                  st |-> "ok", tag |-> e.tag]
        Params(e, hdr, res1) ==
            IF ~hdr.ok
            THEN [h |-> hdr.h, res |-> res1, td |-> td, st |-> "Error",
                  tag |-> e.tag]
            ELSE Samples(e, res1, hdr.v[4],
                         ReadFields(hdr.h, [k \in 1..hdr.v[1] |-> "u2"], 1, <<>>))
        Header(e, hdr, got) ==
            Params(e, hdr,
                   [res EXCEPT
                      !.keys = @ \cup {"DataPts"},
                      !.DataPts =
                         [keys     |-> {"_datapts_params"}
                                       \cup (IF got >= 1 THEN {"num data points"}
                                             ELSE {})
                                       \cup (IF got >= 2 THEN {"num traces"}
                                             ELSE {})
                                       \cup (IF got >= 4 THEN {"scaling factor"}
                                             ELSE {}),
                          N        |-> IF got >= 1 THEN hdr.v[1] ELSE 0,
                          traces   |-> IF got >= 2 THEN hdr.v[2] ELSE 0,
                          scaling  |-> IF got >= 4 THEN hdr.v[4] ELSE 0,
                          offset   |-> "STV",
                          xscaling |-> 1]])
        Read(e, hdr) == Header(e, hdr, Len(hdr.v))
        Body(e) ==
            IF e.st # "ok"
            THEN [h |-> e.h, res |-> res, td |-> td, st |-> e.st, tag |-> e.tag]
            ELSE Read(e, ReadFields(e.h, <<"u4", "i2", "u4", "u2">>, 1, <<>>))
    IN  Body(BlockEnter(h, res, StrDataPts))

(***************************************************************************)
(* _process_keyevents                                                      *)
(***************************************************************************)
EventFields(fmt) ==
    IF fmt = 2
    THEN <<"u2", "u4", "i2", "i2", "i4", "a8", "r20", "str">>
    ELSE <<"u2", "u4", "i2", "i2", "i4", "a8", "str">>

SummaryFields == <<"i4", "i4", "u4", "u2", "i4", "u4">>

RECURSIVE EventLoop(_, _, _, _, _)
EventLoop(h, fmt, j, nev, acc) ==
    IF j >= nev THEN [h |-> h, v |-> acc, ok |-> TRUE]
    ELSE LET Then(r) ==
                 IF r.ok THEN EventLoop(r.h, fmt, j + 1, nev, Append(acc, r.v))
                 ELSE [h |-> r.h, v |-> acc, ok |-> FALSE]
         IN  Then(ReadFields(h, EventFields(fmt), 1, <<>>))

\* factor = 1e-4 * SOL / float(results["FxdParams"]["index"]) raises when
\* FxdParams or its index is missing, or the index is 0
ProcessKeyevents(h, res) ==
    LET Summary(e, res1, rec1, ev, sm) ==
            IF ~sm.ok
            THEN [h |-> sm.h,
                  res |-> [res1 EXCEPT !.KeyEvents =
                              [rec1 EXCEPT !.events = ev.v]],
                  st |-> "Error", tag |-> e.tag]
            ELSE [h |-> sm.h,
                  res |-> [res1 EXCEPT !.KeyEvents =
                              [rec1 EXCEPT !.events = ev.v,
                                           !.summary = sm.v,
                                           !.keys = @ \cup {"Summary"}]],
                  st |-> "ok", tag |-> e.tag]
        Events(e, res1, rec1, ev) ==
            IF ~ev.ok
            THEN [h |-> ev.h,
                  res |-> [res1 EXCEPT !.KeyEvents =
                              [rec1 EXCEPT !.events = ev.v]],
                  st |-> "Error", tag |-> e.tag]
            ELSE Summary(e, res1, rec1, ev,
                         ReadFields(ev.h, SummaryFields, 1, <<>>))
        Factor(e, res1, rec1, n, ixk) ==
            IF \/ "FxdParams" \notin res.keys
               \/ Len(res.FxdParams.vals) < ixk
               \/ res.FxdParams.vals[ixk] = 0
            THEN [h |-> n.h, res |-> [res1 EXCEPT !.KeyEvents = rec1],
                  st |-> "Error", tag |-> e.tag]
            ELSE Events(e, res1, rec1, EventLoop(n.h, res.format, 0, n.v, <<>>))
        Count(e, res1, rec0, n) ==
            IF ~n.ok THEN [h |-> n.h, res |-> res1, st |-> "Error", tag |-> e.tag]
            ELSE Factor(e, res1,
                        [rec0 EXCEPT !.keys = {"num events"}, !.nev = n.v], n,
                        CHOOSE k \in 1..Len(FxdFields(res.format)) :
                            FxdFields(res.format)[k][1] = "index")
        Start(e, rec0) ==
            Count(e,
                  [res EXCEPT !.keys = @ \cup {"KeyEvents"}, !.KeyEvents = rec0],
                  rec0, GetUint(e.h, 2))
        Body(e) ==
            IF e.st # "ok" THEN [h |-> e.h, res |-> res, st |-> e.st, tag |-> e.tag]
            ELSE Start(e, [keys |-> {}, nev |-> 0, events |-> <<>>,
                           summary |-> <<>>])
    IN  Body(BlockEnter(h, res, StrKeyEvents))

(***************************************************************************)
(* _process_cksum                                                          *)
(***************************************************************************)
CksumStatusBug(match) == IF match THEN "ok" ELSE "nok"

\* the status returned once the checksum is read
CksumStatus(match) == "ok"

CksumMatch(digest, csum) == digest = csum

\* fieldpos: where the stored checksum is read from
ProcessCksum(h, res) ==
    LET Stored(e, hd, res1, c, m) ==
            IF ~c.ok
            THEN [h |-> c.h, res |-> res1, st |-> "Error", tag |-> e.tag,
                  fieldpos |-> hd.pos]
            ELSE [h |-> c.h,
                  res |-> [res1 EXCEPT !.Cksum =
                              [keys |-> {"checksum_ours", "checksum", "match"},
                               ours |-> hd.crc, checksum |-> c.v, match |-> m]],
                  st |-> CksumStatus(m), tag |-> e.tag, fieldpos |-> hd.pos]
        Read(e, hd, res1, c) == Stored(e, hd, res1, c, CksumMatch(hd.crc, c.v))
        Digest(e, hd) ==
            Read(e, hd,
                 [res EXCEPT !.keys = @ \cup {"Cksum"},
                             !.Cksum = [keys |-> {}, ours |-> 0, checksum |-> 0,
                                        match |-> FALSE]],
                 GetUint(hd, 2))
        Body(e) ==
            IF e.st # "ok"
            THEN [h |-> e.h, res |-> res, st |-> e.st, tag |-> e.tag,
                  fieldpos |-> -1]
            ELSE Digest(e, FHDigest(e.h))
    IN  Body(BlockEnter(h, res, StrCksum))

(***************************************************************************)
(* Input files.  A file is laid out from a description g: the map, then    *)
(* the blocks in map order, every declared size being the block's length.  *)
(* The FxdParams fields sit at the offsets of plist counted from the start *)
(* of the block, where _process_fxdparams reads them.                      *)
(***************************************************************************)
U16(v) == <<v % 256, (v \div 256) % 256>>

U32(v) == <<v % 256, (v \div 256) % 256, (v \div 65536) % 256,
            (v \div 16777216) % 256>>

I16(v) == U16(IF v < 0 THEN v + 65536 ELSE v)

I32(v) == IF v >= 0 THEN U32(v)
          ELSE <<(v + 16777216) % 256, ((v + 16777216) \div 256) % 256,
                 ((v + 16777216) \div 65536) % 256, 255>>

Zeros(n) == [i \in 1..n |-> 0]

StrXtra == <<88, 116, 114, 97>>

CStr(b) == <<b, 0>>

TagOf(g, k) ==
    IF g.fmt = 1 THEN <<>>
    ELSE IF g.bad = k THEN <<g.badByte>> \o Tail(g.layout[k]) \o <<0>>
    ELSE g.layout[k] \o <<0>>

FxdOff(fmt, name) ==
    FxdFields(fmt)[CHOOSE k \in 1..Len(FxdFields(fmt)) :
                      FxdFields(fmt)[k][1] = name][2]

PutAt(img, off, bytes) ==
    [p \in 1..Len(img) |->
        IF p > off /\ p <= off + Len(bytes) THEN bytes[p - off] ELSE img[p]]

FxdImage(g) ==
    PutAt(PutAt(PutAt(PutAt(PutAt(Zeros(IF g.fmt = 1 THEN 54 ELSE 92),
                                  FxdOff(g.fmt, "unit"), <<109, 116>>),
                            FxdOff(g.fmt, "front panel offset"), I32(-3)),
                      FxdOff(g.fmt, "index"), U32(g.ior)),
                FxdOff(g.fmt, "num data points"), U32(g.N)),
          FxdOff(g.fmt, "sample spacing"), U32(g.ss))

RECURSIVE Concat(_)
Concat(ss) == IF ss = <<>> THEN <<>> ELSE Head(ss) \o Concat(Tail(ss))

\* the body of block k without its tag; the checksum is filled in later
BodyOf(g, k) ==
    CASE g.layout[k] = StrGenParams ->
           <<69, 78>> \o CStr(97) \o CStr(98)
           \o (IF g.fmt = 2 THEN U16(652) ELSE <<>>)
           \o U16(1310) \o CStr(99) \o CStr(100) \o CStr(101)
           \o <<66, 67>> \o I32(0 - 7)
           \o (IF g.fmt = 2 THEN I32(5) ELSE <<>>)
           \o CStr(102) \o CStr(103)
      [] g.layout[k] = StrSupParams ->
           Concat([i \in 1..7 |-> CStr(110 + i)])
      [] g.layout[k] = StrFxdParams ->
           SubSeq(FxdImage(g), IF g.fmt = 1 THEN 1 ELSE 11,
                  IF g.fmt = 1 THEN 54 ELSE 92)
      [] g.layout[k] = StrDataPts ->
           U32(g.N) \o I16(g.traces) \o U32(g.N) \o U16(g.scal)
           \o Concat([i \in 1..g.N |-> U16(g.samples[i])])
      [] g.layout[k] = StrKeyEvents ->
           U16(1) \o U16(1) \o U32(1000) \o I16(0 - 5) \o I16(10)
           \o I32(0 - 40000) \o <<49, 70, 57, 57, 57, 57, 76, 83>>
           \o (IF g.fmt = 2 THEN Zeros(20) ELSE <<>>)
           \o CStr(107)
           \o I32(1200) \o I32(0) \o U32(1000) \o U16(30000) \o I32(0)
           \o U32(1000)
      [] g.layout[k] = StrCksum -> <<0, 0>>
      [] OTHER -> <<1, 2, 3>>

BlockBytes(g, k) == TagOf(g, k) \o BodyOf(g, k)

MapBytes(g) ==
    LET Lay(lead, entries) ==
            lead \o U16(IF g.fmt = 2 THEN 200 ELSE 100)
            \o U32(Len(lead) + 8 + Len(entries)) \o U16(Len(g.layout) + 1)
            \o entries
    IN  Lay(IF g.fmt = 2 THEN StrMap \o <<0>> ELSE <<>>,
            Concat([k \in 1..Len(g.layout) |->
                       g.layout[k] \o <<0>>
                       \o U16(IF g.fmt = 2 THEN 200 ELSE 100)
                       \o U32(Len(BlockBytes(g, k)))]))

\* where the stored checksum sits (0-based), or -1 without a Cksum block
CksumFieldAt(g) ==
    LET At(k) ==
            Len(MapBytes(g))
              + Len(Concat([j \in 1..(k - 1) |-> BlockBytes(g, j)]))
              + Len(TagOf(g, k))
    IN  IF \E k \in 1..Len(g.layout) : g.layout[k] = StrCksum
        THEN At(CHOOSE k \in 1..Len(g.layout) : g.layout[k] = StrCksum)
        ELSE -1

BuildFile(g) ==
    LET Patch(raw, at, sum) ==
            [p \in 1..Len(raw) |->
                IF p = at + 1 THEN sum % 256
                ELSE IF p = at + 2 THEN sum \div 256
                ELSE raw[p]]
        Sum(raw, at) ==
            IF at < 0 THEN raw
            ELSE Patch(raw, at,
                       (CrcUpdate(CrcInit, SubSeq(raw, 1, at)) + g.ckdelta)
                          % 65536)
    IN  IF g.kind = "junk" THEN g.junk
        ELSE Sum(MapBytes(g)
                   \o Concat([k \in 1..Len(g.layout) |-> BlockBytes(g, k)]),
                 CksumFieldAt(g))

(***************************************************************************)
(* sorparse and convert_to_csv                                             *)
(***************************************************************************)
KnownBlocks == {StrGenParams, StrSupParams, StrFxdParams, StrDataPts,
                StrKeyEvents, StrCksum}

\* klist = sorted(results["blocks"], key = order)
SortedNames(blocks) ==
    LET srt == SortSeq(blocks, LAMBDA a, b : a.order < b.order)
    IN  [i \in 1..Len(srt) |-> srt[i].name]

NoData == <<>>

\* return status, self.results, self.tracedata
RetOf(st, res, td) == [status |-> st, results |-> <<res>>, tracedata |-> <<td>>]

\* return status, None, None
RetNone(st) == [status |-> st, results |-> NoData, tracedata |-> NoData]

\* _write_csv: the header line, then every line with the tab made a comma
WriteCsv(td) ==
    [written |-> TRUE,
     header  |-> "Distance (km),Loss (dB)",
     lines   |-> [i \in 1..Len(td) |-> [td[i] EXCEPT !.sep = ","]]]

NoOutput == [written |-> FALSE, header |-> "", lines |-> <<>>]

NoMapInfo == [tt |-> <<>>, hver |-> FHNew, parsed |-> FALSE]

OrderOf(res, name) == BlockRef(res, name).order

\* sorparse up to the block loop: open the file, parse the map, sort the names
StartParse ==
    /\ pc \in {"start", "done"}
    /\ calls < MaxCalls
    /\ calls' = calls + 1
    /\ ran' = <<>>
    /\ cksumpos' = -1
    /\ IF ~gen.openable
       THEN /\ pc' = "ret"
            /\ ret' = RetNone("Error")
            /\ UNCHANGED <<fh, results, status, klist, idx, mapinfo>>
       ELSE \E m \in {ProcessMapblock(FHNew,
                                       [results EXCEPT
                                          !.keys = @ \cup {"filename"}])} :
                /\ fh' = m.h
                /\ results' = m.res
                /\ mapinfo' = [tt |-> m.tt, hver |-> m.hver, parsed |-> TRUE]
                /\ IF m.st # "ok"
                   THEN /\ pc' = "ret"
                        /\ ret' = RetNone("Error")
                        /\ UNCHANGED <<status, klist, idx>>
                   ELSE /\ status' = m.st
                        /\ klist' = SortedNames(m.res.blocks)
                        /\ idx' = 1
                        /\ pc' = IF klist' = <<>> THEN "closing" ELSE "loop"
                        /\ ret' = ret
    /\ UNCHANGED <<file, gen, tracedata, output, convRet, fhonly>>

StopOnBug(st) == FALSE

\* if status != "ok": break
StopOn(st) == st # "ok"

\* what follows one decoder: a raised error leaves sorparse through its
\* except clause, a status other than ok breaks the loop
AfterBlock(name, r) ==
    /\ ran' = Append(ran, [name |-> name, order |-> OrderOf(results, name),
                           st |-> r.st, tag |-> r.tag])
    /\ fh' = r.h
    /\ results' = r.res
    /\ IF r.st = "Error"
       THEN /\ pc' = "ret"
            /\ ret' = RetNone("Error")
            /\ UNCHANGED <<status, idx>>
       ELSE /\ status' = r.st
            /\ idx' = idx + 1
            /\ pc' = IF StopOn(r.st) \/ idx + 1 > Len(klist)
                     THEN "closing" ELSE "loop"
            /\ ret' = ret
    /\ UNCHANGED <<file, gen, klist, output, convRet, calls, mapinfo, fhonly>>

InLoop(name) == pc = "loop" /\ idx <= Len(klist) /\ klist[idx] = name

DoGenParams ==
    /\ InLoop(StrGenParams)
    /\ AfterBlock(StrGenParams, ProcessGenparams(fh, results))
    /\ UNCHANGED <<tracedata, cksumpos>>

DoSupParams ==
    /\ InLoop(StrSupParams)
    /\ AfterBlock(StrSupParams, ProcessSupparams(fh, results))
    /\ UNCHANGED <<tracedata, cksumpos>>

DoFxdParams ==
    /\ InLoop(StrFxdParams)
    /\ AfterBlock(StrFxdParams, ProcessFxdparams(fh, results))
    /\ UNCHANGED <<tracedata, cksumpos>>

DoDataPts ==
    /\ InLoop(StrDataPts)
    /\ \E r \in {ProcessDatapts(fh, results, tracedata)} :
           /\ AfterBlock(StrDataPts, r)
           /\ tracedata' = r.td
    /\ UNCHANGED cksumpos

DoKeyEvents ==
    /\ InLoop(StrKeyEvents)
    /\ AfterBlock(StrKeyEvents, ProcessKeyevents(fh, results))
    /\ UNCHANGED <<tracedata, cksumpos>>

DoCksum ==
    /\ InLoop(StrCksum)
    /\ \E r \in {ProcessCksum(fh, results)} :
           /\ AfterBlock(StrCksum, r)
           /\ cksumpos' = r.fieldpos
    /\ UNCHANGED tracedata

\* a name no branch of the dispatch matches: status keeps its value
SkipUnknown ==
    /\ pc = "loop" /\ idx <= Len(klist) /\ klist[idx] \notin KnownBlocks
    /\ idx' = idx + 1
    /\ pc' = IF StopOn(status) \/ idx + 1 > Len(klist) THEN "closing" ELSE "loop"
    /\ UNCHANGED <<file, fh, gen, results, tracedata, status, klist, ret,
                   output, convRet, calls, ran, mapinfo, cksumpos, fhonly>>

\* fh.close(); return status, self.results, self.tracedata
SorparseReturn ==
    /\ pc = "closing"
    /\ ret' = RetOf(status, results, tracedata)
    /\ pc' = "ret"
    /\ UNCHANGED <<file, fh, gen, results, tracedata, status, klist, idx,
                   output, convRet, calls, ran, mapinfo, cksumpos, fhonly>>

\* convert_to_csv after sorparse returned
ConvertFinish ==
    /\ pc = "ret"
    /\ IF ret.status # "ok"
       THEN /\ convRet' = <<FALSE>>
            /\ output' = output
       ELSE /\ convRet' = <<TRUE>>
            /\ output' = WriteCsv(ret.tracedata[1])
    /\ pc' = "done"
    /\ UNCHANGED <<file, fh, gen, results, tracedata, status, klist, idx, ret,
                   calls, ran, mapinfo, cksumpos, fhonly>>

(***************************************************************************)
(* The files and the initial state                                         *)
(***************************************************************************)
Standard == <<StrGenParams, StrSupParams, StrFxdParams, StrKeyEvents,
              StrDataPts, StrCksum>>

Layouts ==
    {Standard,
     <<StrGenParams, StrSupParams, StrFxdParams, StrXtra, StrDataPts,
       StrKeyEvents, StrCksum>>,
     <<StrGenParams, StrDataPts, StrFxdParams, StrCksum>>,
     <<StrFxdParams, StrKeyEvents, StrCksum>>,
     <<StrFxdParams, StrCksum, StrDataPts>>,
     <<StrDataPts, StrFxdParams, StrDataPts, StrCksum>>,
     <<>>}

SampleVals == {50, 100, 150}

BaseGen ==
    [kind |-> "sor", openable |-> TRUE, fmt |-> 2, layout |-> Standard,
     bad |-> 0, badByte |-> 88, N |-> 3, samples |-> <<100, 150, 50>>,
     scal |-> 1000, ss |-> 2, ior |-> 1, traces |-> 1, ckdelta |-> 0,
     junk |-> <<>>]

\* every layout in both formats, one tag at most damaged, checksum right or not
StructGens ==
    {[BaseGen EXCEPT !.fmt = f, !.layout = l, !.bad = b, !.badByte = x,
                     !.ckdelta = d] :
        f \in {1, 2}, l \in Layouts, b \in 0..MaxBlocks, x \in {88, 255},
        d \in {0, 1}}

\* every sample series up to MaxN samples
SampleGens ==
    UNION {{[BaseGen EXCEPT !.fmt = f, !.N = n, !.samples = sm, !.scal = sc] :
               f \in {1, 2}, sm \in [1..n -> SampleVals], sc \in {1000, 2500}} :
           n \in 0..MaxN}

\* sample spacing, index of refraction, trace count
FxdGens ==
    {[BaseGen EXCEPT !.fmt = f, !.ss = s, !.ior = i, !.traces = t,
                     !.ckdelta = d] :
        f \in {1, 2}, s \in {1, 2}, i \in {0, 1, 2}, t \in {1, 2}, d \in {0, 1}}

\* files that are not SOR files, and a file that cannot be opened
JunkFiles ==
    {<<>>, StrMap, StrMap \o <<0>>, <<77, 97>>, StrMap \o <<120>>,
     <<255, 0, 1, 0>>, <<77, 97, 112, 0, 200, 0, 12, 0, 0, 0, 1, 0>>,
     <<100, 0, 8, 0, 0, 0, 1, 0>>, <<77, 117, 112, 0, 8, 0, 0, 0>>}

JunkGens ==
    {[BaseGen EXCEPT !.kind = "junk", !.junk = j] : j \in JunkFiles}
    \cup {[BaseGen EXCEPT !.openable = FALSE]}

GoodGen(g) ==
    /\ g.bad <= Len(g.layout)
    /\ (g.bad > 0 => g.fmt = 2 /\ g.layout[g.bad] \in KnownBlocks)
    /\ (g.bad = 0 => g.badByte = 88)

Gens == {g \in StructGens \cup SampleGens \cup FxdGens \cup JunkGens : GoodGen(g)}

Init ==
    /\ gen \in Gens
    /\ file = BuildFile(gen)
    /\ fh = FHNew
    /\ pc = "start"
    /\ results = ResultsNew
    /\ tracedata = <<>>
    /\ status = "ok"
    /\ klist = <<>>
    /\ idx = 1
    /\ ret = RetNone("none")
    /\ output = NoOutput
    /\ convRet = <<>>
    /\ calls = 0
    /\ ran = <<>>
    /\ mapinfo = NoMapInfo
    /\ cksumpos = -1
    /\ consumed = <<>>
    /\ digests = 0
    /\ lastDigest = -1
    /\ seeks = 0
    /\ nops = 0

Next ==
    \/ StartParse
    \/ DoGenParams
    \/ DoSupParams
    \/ DoFxdParams
    \/ DoDataPts
    \/ DoKeyEvents
    \/ DoCksum
    \/ SkipUnknown
    \/ SorparseReturn
    \/ ConvertFinish

Spec == Init /\ [][Next]_vars

(***************************************************************************)
(* The FileHandler on its own: reads of any size, seeks and digests over a *)
(* file longer than the buffer.                                            *)
(***************************************************************************)
FHFile == [i \in 1..FHFileLen |-> ((i * 31) + (i \div 256) + 7) % 256]

FHInit ==
    /\ file = FHFile
    /\ fh = FHNew
    /\ consumed = <<>>
    /\ digests = 0
    /\ lastDigest = -1
    /\ seeks = 0
    /\ nops = 0
    /\ gen = BaseGen
    /\ pc = "fh"
    /\ results = ResultsNew
    /\ tracedata = <<>>
    /\ status = "ok"
    /\ klist = <<>>
    /\ idx = 1
    /\ ret = RetNone("none")
    /\ output = NoOutput
    /\ convRet = <<>>
    /\ calls = 0
    /\ ran = <<>>
    /\ mapinfo = NoMapInfo
    /\ cksumpos = -1

FHReadStep ==
    /\ pc = "fh"
    /\ nops < MaxOps
    /\ \E n \in ReadSizes :
          LET r == FHRead(fh, n)
          IN  /\ fh' = r.h
              /\ consumed' = consumed \o r.buf
    /\ nops' = nops + 1
    /\ UNCHANGED <<file, digests, lastDigest, seeks, parsevars>>

FHSeekStep ==
    /\ pc = "fh"
    /\ nops < MaxOps
    /\ \E p \in SeekTargets :
          /\ fh' = FHSeek(fh, p)
          /\ consumed' = IF p = 0 THEN <<>> ELSE consumed
          /\ digests' = IF p = 0 THEN 0 ELSE digests
          /\ lastDigest' = IF p = 0 THEN -1 ELSE lastDigest
          /\ seeks' = IF p = 0 THEN 0 ELSE seeks + 1
    /\ nops' = nops + 1
    /\ UNCHANGED <<file, parsevars>>

FHDigestStep ==
    /\ pc = "fh"
    /\ nops < MaxOps
    /\ fh' = FHDigest(fh)
    /\ lastDigest' = fh'.crc
    /\ digests' = digests + 1
    /\ nops' = nops + 1
    /\ UNCHANGED <<file, consumed, seeks, parsevars>>

FHNext == FHReadStep \/ FHSeekStep \/ FHDigestStep

SpecFH == FHInit /\ [][FHNext]_vars

(***************************************************************************)
(* Properties                                                              *)
(***************************************************************************)
\* the decoders of this parse that read a tag other than "<name>\0"
TagMismatch ==
    results.format = 2
    /\ \E i \in 1..Len(ran) : ran[i].tag # ran[i].name \o <<0>>

\* C1: in a format-2 file, once a known block's leading tag differs from
\* "<name>\0" the block loop is left, sorparse returns a status other than
\* ok, and convert_to_csv returns False without writing the output file,
\* however many blocks were decoded before.
C1_TagMismatchFails ==
    TagMismatch =>
        /\ pc \in {"closing", "ret", "done"}
        /\ ran[Len(ran)].tag # ran[Len(ran)].name \o <<0>>
        /\ (pc \in {"ret", "done"} => ret.status # "ok")
        /\ (pc = "done" => convRet = <<FALSE>> /\ ~output.written)

C1_Witness ==
    /\ TagMismatch
    /\ pc = "done"
    /\ Len(ran) >= 3
    /\ ran[1].st = "ok" /\ ran[2].st = "ok"
    /\ convRet = <<FALSE>>

\* C2: whenever sorparse ends with a status other than ok it hands back no
\* results and no trace data.
C2_NoPartialData ==
    (pc \in {"ret", "done"} /\ ret.status # "ok") =>
        (ret.results = NoData /\ ret.tracedata = NoData)

\* the Cksum decoder of this parse read the stored checksum and it differs
\* from the digest
CksumDiffers(i) ==
    /\ ran[i].name = StrCksum
    /\ ran[i].st # "Error"
    /\ (results.format = 2 => ran[i].tag = StrCksum \o <<0>>)
    /\ results.Cksum.ours # results.Cksum.checksum

\* C3: a stored checksum that differs from the computed digest gives
\* match = false and nothing more: the Cksum decoder returns ok, and unless a
\* later decoder fails the parse ends ok, the trace data is returned and
\* convert_to_csv writes it.
C3_SoftChecksum ==
    \A i \in 1..Len(ran) :
        CksumDiffers(i) =>
            /\ "match" \in results.Cksum.keys
            /\ results.Cksum.match = FALSE
            /\ ran[i].st = "ok"
            /\ ((\A j \in (i + 1)..Len(ran) : ran[j].st = "ok") =>
                   /\ (pc \in {"ret", "done"} =>
                          /\ ret.status = "ok"
                          /\ ret.tracedata = <<tracedata>>)
                   /\ (pc = "done" =>
                          /\ convRet = <<TRUE>>
                          /\ output = WriteCsv(tracedata)))

C3_Witness ==
    /\ pc = "done"
    /\ \E i \in 1..Len(ran) : CksumDiffers(i)
    /\ gen.ckdelta = 1
    /\ convRet = <<TRUE>>
    /\ output.written
    /\ Len(output.lines) = gen.N
    /\ gen.N > 0

\* C4: after a sorparse that ends ok on a file whose map declares DataPts,
\* the trace data returned has exactly the declared number of entries.
C4_TraceCount ==
    (/\ pc \in {"ret", "done"}
     /\ ret.status = "ok"
     /\ \E i \in 1..Len(results.blocks) : results.blocks[i].name = StrDataPts) =>
        Len(ret.tracedata[1]) = results.DataPts.N

DataPtsDone == \E i \in 1..Len(ran) : ran[i].name = StrDataPts /\ ran[i].st = "ok"

\* the trace points of this parse: the last N entries
Emitted(k) == tracedata[Len(tracedata) - results.DataPts.N + k]

\* i times the resolution in km, written with "%.6f"
ResolutionTimes(fxd, i) == Fmt6(SOLnum * fxd.ss * i, fxd.ior * 1000000)

\* C5: the distance of trace point i is i times the per-sample resolution in
\* kilometres (the FxdParams resolution in metres divided by 1000).
C5_Distance ==
    DataPtsDone =>
        \A k \in 1..results.DataPts.N :
            Emitted(k).dist = ResolutionTimes(results.FxdParams, k - 1)

IsMaxOf(m, s) ==
    /\ \E j \in 1..Len(s) : s[j] = m
    /\ \A j \in 1..Len(s) : s[j] <= m

\* C6: with the offset mode STV the loss of sample i is (max raw - raw_i)
\* x 0.001 x scaling factor, in millionths (max - raw_i) x the scaling code;
\* so no loss is negative and a sample at the maximum has loss 0.
C6_StvLoss ==
    (DataPtsDone /\ gen.kind = "sor") =>
        /\ results.DataPts.N = gen.N
        /\ results.DataPts.offset = "STV"
        /\ \A k \in 1..gen.N :
              /\ \A m \in SampleVals :
                    IsMaxOf(m, gen.samples) =>
                        Emitted(k).loss = (m - gen.samples[k]) * gen.scal
              /\ Emitted(k).loss >= 0
              /\ (IsMaxOf(gen.samples[k], gen.samples) => Emitted(k).loss = 0)

C6_Witness ==
    /\ DataPtsDone
    /\ pc = "done"
    /\ gen.samples = <<100, 150, 50>> /\ gen.N = 3 /\ gen.scal = 1000
    /\ Emitted(1).loss = 50000
    /\ Emitted(2).loss = 0
    /\ Emitted(3).loss = 100000

\* the file begins with the 4 bytes 'M', 'a', 'p', NUL
LeadsMapNul == Len(file) >= 4 /\ SubSeq(file, 1, 4) = StrMap \o <<0>>

\* the bytes of the file before its first NUL, all of them when it has none
RECURSIVE LeadFrom(_)
LeadFrom(i) ==
    IF i > Len(file) \/ file[i] = 0 THEN <<>>
    ELSE <<file[i]>> \o LeadFrom(i + 1)

LeadString == LeadFrom(1)

\* C7 as stated: format = 2 exactly when the file begins with "Map\0", and
\* for any other leading bytes format = 1 and the version is read from
\* offset 0 with the checksum state reset.
C7_FormatByFourBytes ==
    mapinfo.parsed =>
        IF LeadsMapNul THEN results.format = 2
        ELSE /\ "format" \in results.keys
             /\ results.format = 1
             /\ mapinfo.hver = FHNew

\* C7 amended: format = 2 exactly when the leading string (the bytes before
\* the first NUL, or the whole file) is "Map"; any other leading string that
\* is valid UTF-8 gives format = 1 and the version is read from offset 0 with
\* the checksum state reset; a leading string that is not valid UTF-8 ends
\* the parse with an error before a format is set.
C7_FormatByLeadString ==
    mapinfo.parsed =>
        IF ~Utf8Valid(LeadString)
        THEN "format" \notin results.keys /\ ret.status = "Error"
        ELSE /\ "format" \in results.keys
             /\ mapinfo.tt = LeadString
             /\ IF LeadString = StrMap
                THEN /\ results.format = 2
                     /\ mapinfo.hver.pos = Min(4, Len(file))
                     /\ mapinfo.hver.buffer = SubSeq(file, 1, Min(4, Len(file)))
                ELSE /\ results.format = 1
                     /\ mapinfo.hver = FHNew

C7_Witness ==
    /\ mapinfo.parsed
    /\ LeadString = StrMap
    /\ ~LeadsMapNul
    /\ results.format = 2
    /\ pc = "done"

\* the sizes the map declares for its first k entries, added up
RECURSIVE DeclaredBefore(_)
DeclaredBefore(k) ==
    IF k = 0 THEN 0 ELSE Len(BlockBytes(gen, k)) + DeclaredBefore(k - 1)

\* the offset of the block with order index k is the map block's declared
\* size plus the declared sizes of the entries before it
OffsetsCumulative ==
    /\ results.mapblock.nbytes = Len(MapBytes(gen))
    /\ \A i \in 1..Len(results.blocks) :
          LET b == results.blocks[i]
          IN  /\ b.size = Len(BlockBytes(gen, b.order + 1))
              /\ b.pos = results.mapblock.nbytes + DeclaredBefore(b.order)

OffsetsNonDecreasing ==
    \A i, j \in 1..Len(results.blocks) :
        results.blocks[i].order < results.blocks[j].order =>
            results.blocks[i].pos <= results.blocks[j].pos

\* the block with the highest order index
LastBlock ==
    CHOOSE b \in {results.blocks[i] : i \in 1..Len(results.blocks)} :
        \A i \in 1..Len(results.blocks) : results.blocks[i].order <= b.order

\* the length of the tag that leads a block in this format
TagLen(name) == IF results.format = 2 THEN Len(name) + 1 ELSE 0

\* C8 as stated: offsets are cumulative and non-decreasing, and the last
\* block's offset plus its size is the position of the checksum field.
C8_LastEndIsChecksumField ==
    (mapinfo.parsed /\ gen.kind = "sor") =>
        /\ OffsetsCumulative
        /\ OffsetsNonDecreasing
        /\ (cksumpos >= 0 => LastBlock.pos + LastBlock.size = cksumpos)

\* C8 amended: offsets are cumulative and non-decreasing; the checksum field
\* is read at the Cksum block's offset plus the length of its tag, and when
\* Cksum is the last block and its size covers the tag and the 2-byte
\* checksum, the last offset plus size is the end of the checksum field.
C8_ChecksumFieldAfterTag ==
    (mapinfo.parsed /\ gen.kind = "sor") =>
        /\ OffsetsCumulative
        /\ OffsetsNonDecreasing
        /\ (cksumpos >= 0 =>
               /\ cksumpos = BlockRef(results, StrCksum).pos + TagLen(StrCksum)
               /\ ((/\ LastBlock.name = StrCksum
                    /\ LastBlock.size = TagLen(StrCksum) + 2) =>
                      LastBlock.pos + LastBlock.size = cksumpos + 2))

C8_Witness ==
    /\ mapinfo.parsed /\ gen.kind = "sor"
    /\ pc = "done"
    /\ results.format = 2
    /\ Len(results.blocks) >= 6
    /\ cksumpos = BlockRef(results, StrCksum).pos + 6
    /\ LastBlock.name = StrCksum
    /\ LastBlock.pos + LastBlock.size = Len(file)
    /\ cksumpos + 2 = Len(file)

\* C9: within one parse the decoders run in strictly ascending order index,
\* no block twice, and a decoder that reports a status other than ok is the
\* last to run.
C9_AscendingUntilFailure ==
    /\ \A i, j \in 1..Len(ran) :
          i < j => (ran[i].order < ran[j].order /\ ran[i].name # ran[j].name)
    /\ \A i \in 1..Len(ran) : ran[i].st # "ok" => i = Len(ran)
    /\ \A i \in 1..Len(ran) :
          \E k \in 1..Len(klist) : klist[k] = ran[i].name /\ k < idx + 1
    /\ ((\E i \in 1..Len(ran) : ran[i].st # "ok") => pc # "loop")

C9_Witness ==
    /\ pc = "done"
    /\ Len(ran) >= 3
    /\ ran[Len(ran)].st = "nok"
    /\ Len(klist) > Len(ran)
    /\ \A i \in 1..(Len(ran) - 1) : ran[i].st = "ok"

\* C10: the first digest after a seek(0) is the CRC-16/CCITT-FALSE of the
\* bytes the reads returned since then, in call order, whatever the read
\* sizes; a seek to a non-zero position leaves the CRC and the buffer alone.
C10_DigestOfReads ==
    [][/\ (digests = 0 /\ digests' = 1) =>
             lastDigest' = CrcUpdate(CrcInit, consumed)
       /\ (seeks' = seeks + 1) =>
             /\ fh'.crc = fh.crc
             /\ fh'.buffer = fh.buffer
             /\ fh'.spaceleft = fh.spaceleft]_vars

C10_Witness ==
    /\ pc = "fh"
    /\ digests = 1
    /\ seeks > 0
    /\ Len(consumed) > bufsize
    /\ Len(fh.buffer) < Len(consumed)
    /\ lastDigest = CrcUpdate(CrcInit, consumed)

\* the file bytes read so far at the offsets before p, each once, in file
\* order
ReadBefore(p) ==
    LET offs == SelectSeq([i \in 1..p |-> i - 1], LAMBDA o : o \in fh.seen)
    IN  [i \in 1..Len(offs) |-> file[offs[i] + 1]]

\* the Cksum block of this parse took its digest and read the stored value
CksumTaken ==
    /\ cksumpos >= 0
    /\ "Cksum" \in results.keys
    /\ "checksum_ours" \in results.Cksum.keys

\* C11: after the format probe the parser reads strictly forward: no seek
\* goes to or before an offset already read, no byte is folded into the
\* checksum twice, and the digest taken in the Cksum block is the CRC of the
\* file bytes read before the stored checksum field, in file order, in
\* format 1 and in format 2, the field reads of FxdParams included.
C11_ForwardReads ==
    /\ fh.back = 0
    /\ fh.reread = 0
    /\ CksumTaken => results.Cksum.ours = CrcUpdate(CrcInit, ReadBefore(cksumpos))

\* the same for the files of format 1 alone, where FxdParams has no tag
C11_ForwardReadsFormat1 ==
    ("format" \in results.keys /\ results.format = 1) => C11_ForwardReads

\* a format-2 parse that decoded FxdParams and reached the checksum
C11_RereadTag ==
    /\ results.format = 2
    /\ CksumTaken
    /\ fh.back = Cardinality({k \in 1..Len(FxdFields(2)) :
                              FxdFields(2)[k][2] < Len(StrFxdParams) + 1})
    /\ fh.reread = Len(StrFxdParams) + 1
    /\ results.Cksum.ours # CrcUpdate(CrcInit, ReadBefore(cksumpos))

====
